---- MODULE Spec2Model ----
(***************************************************************************)
(* Model of Settings (src/Settings.py): a configparser.ConfigParser with   *)
(* declared defaults, ignored sections, a fallback ledger and temporary    *)
(* (not saved) values.                                                     *)
(*                                                                         *)
(* An ordered mapping (a Python dict, or the parser's section table) is a  *)
(* sequence of records [name, items]; items is a sequence of [opt, val].   *)
(* Stored values are strings.  Values handed in by a caller are typed:     *)
(* [type, s, n] with type in {"str","int","bool","float","unset"}.         *)
(* Option names are lower case and values hold no '%', so optionxform and  *)
(* the parser's interpolation leave them alone; the DEFAULT section is not *)
(* used.  A destination that is a str is a path open() accepts.            *)
(***************************************************************************)
EXTENDS Integers, Sequences, FiniteSets, TLC

VARIABLES
    data,              \* the parser's sections: section -> option -> string
    defaults,          \* self.defaults
    original,          \* self.original
    fallback,          \* self.fallback
    ignored_sections,  \* self.ignored_sections
    file,              \* the file at the path handed to write
    copied,            \* the object the last call returned, when it was copy()
    last,              \* the last call: its name, arguments and outcome
    hist,              \* per option: what it held before its first temporary set, and whether set was called on it
    budget             \* calls still to be made: getters, and the others

vars == <<data, defaults, original, fallback, ignored_sections, file, copied, last, hist, budget>>

\* ------------------------------------------------------------------ bounds
MaxCalls == 3
MaxGets == 2

\* ------------------------------------------------------------ typed values
StrV(x) == [type |-> "str", s |-> x, n |-> 0]
IntV(k) == [type |-> "int", s |-> "", n |-> k]
BoolV(k) == [type |-> "bool", s |-> "", n |-> k]
FloatV(k) == [type |-> "float", s |-> "", n |-> k]
UNSET == [type |-> "unset", s |-> "", n |-> 0]

Digit(k) == <<"0", "1", "2", "3", "4", "5", "6", "7", "8", "9">>[k + 1]

RECURSIVE IntStr(_)
IntStr(k) == IF k < 10 THEN Digit(k) ELSE IntStr(k \div 10) \o Digit(k % 10)

\* str(value) of Python for the modelled types
PyStr(v) ==
    CASE v.type = "str" -> v.s
      [] v.type = "int" -> IntStr(v.n)
      [] v.type = "bool" -> (IF v.n = 1 THEN "True" ELSE "False")
      [] v.type = "float" -> IntStr(v.n) \o ".0"

\* a != b of Python: numbers compare by value across int, bool and float
PyNe(a, b) ==
    IF a.type = "str" \/ b.type = "str"
    THEN ~(a.type = "str" /\ b.type = "str" /\ a.s = b.s)
    ELSE a.n # b.n

\* --------------------------------------------------------- ordered mappings
Names(m) == [i \in 1..Len(m) |-> m[i].name]
Has(m, name) == \E i \in 1..Len(m) : m[i].name = name
Idx(m, name) == CHOOSE i \in 1..Len(m) : m[i].name = name
Items(m, name) == m[Idx(m, name)].items

HasOpt(its, opt) == \E i \in 1..Len(its) : its[i].opt = opt
OptIdx(its, opt) == CHOOSE i \in 1..Len(its) : its[i].opt = opt
OptVal(its, opt) == its[OptIdx(its, opt)].val

\* d[opt] = val on a dict: in place when the key exists, appended otherwise
PutOpt(its, opt, val) ==
    IF HasOpt(its, opt)
    THEN [its EXCEPT ![OptIdx(its, opt)].val = val]
    ELSE Append(its, [opt |-> opt, val |-> val])

DelOpt(its, opt) == SelectSeq(its, LAMBDA e : e.opt # opt)

has_section(m, name) == Has(m, name)
has_option(m, name, opt) == Has(m, name) /\ HasOpt(Items(m, name), opt)
add_section(m, name) == Append(m, [name |-> name, items |-> <<>>])
remove_section(m, name) == SelectSeq(m, LAMBDA e : e.name # name)
remove_option(m, name, opt) == [m EXCEPT ![Idx(m, name)].items = DelOpt(@, opt)]
put(m, name, opt, val) == [m EXCEPT ![Idx(m, name)].items = PutOpt(@, opt, val)]

\* ConfigParser.get(section, option, fallback=fb): the stored string, the
\* fallback when the key is missing, NoSectionError/NoOptionError without one
RawGet(m, name, opt, fb) ==
    IF has_option(m, name, opt)
    THEN [err |-> "", val |-> StrV(OptVal(Items(m, name), opt))]
    ELSE IF fb = UNSET
         THEN [err |-> (IF Has(m, name) THEN "NoOptionError" ELSE "NoSectionError"), val |-> UNSET]
         ELSE [err |-> "", val |-> fb]

\* ------------------------------------------------------------- the object
Obj(d, df, og, fb, ig) ==
    [data |-> d, defaults |-> df, original |-> og, fallback |-> fb, ignored_sections |-> ig]

Self == Obj(data, defaults, original, fallback, ignored_sections)

\* remember_original recording on every temporary set
remember_original_Overwrites(o, section, option) ==
    LET og1 == IF Has(o.original, section) THEN o.original ELSE add_section(o.original, section)
    IN [o EXCEPT !.original =
           put(og1, section, option, RawGet(o.data, section, option, StrV("")).val.s)]

\* remember_original: only the first temporary set of an option records
remember_original(o, section, option) ==
    LET og1 == IF Has(o.original, section) THEN o.original ELSE add_section(o.original, section)
    IN IF HasOpt(Items(og1, section), option)
       THEN [o EXCEPT !.original = og1]
       ELSE [o EXCEPT !.original =
                put(og1, section, option, RawGet(o.data, section, option, StrV("")).val.s)]

set_StoresRaw(o, section, option, value, temporary) ==
    LET o1 == IF ~Has(o.data, section) THEN [o EXCEPT !.data = add_section(@, section)] ELSE o
        o2 == IF temporary THEN remember_original(o1, section, option) ELSE o1
    IN [o2 EXCEPT !.data = put(@, section, option, value.s)]

\* Settings.set(section, option, value, temporary)
set(o, section, option, value, temporary) ==
    LET o1 == IF ~Has(o.data, section) THEN [o EXCEPT !.data = add_section(@, section)] ELSE o
        v == IF value.type # "str" THEN PyStr(value) ELSE value.s
        o2 == IF temporary THEN remember_original(o1, section, option) ELSE o1
    IN [o2 EXCEPT !.data = put(@, section, option, v)]

\* apply set() to every item of one section, in order
RECURSIVE SetAll(_, _, _, _, _)
SetAll(o, section, its, temporary, i) ==
    IF i > Len(its) THEN o
    ELSE SetAll(set(o, section, its[i].opt, its[i].val, temporary), section, its, temporary, i + 1)

Typed(its) == [i \in 1..Len(its) |-> [opt |-> its[i].opt, val |-> StrV(its[i].val)]]

\* RawConfigParser.read_dict: sections and keys in the dictionary's order,
\* every value through str() and self.set()
RECURSIVE read_dict(_, _, _)
read_dict(o, m, i) ==
    IF i > Len(m) THEN o
    ELSE LET o1 == IF Has(o.data, m[i].name) THEN o ELSE [o EXCEPT !.data = add_section(@, m[i].name)]
             its == [j \in 1..Len(m[i].items) |->
                        [opt |-> m[i].items[j].opt, val |-> StrV(PyStr(m[i].items[j].val))]]
         IN read_dict(SetAll(o1, m[i].name, its, FALSE, 1), m, i + 1)

\* defaults=None, or a dictionary section -> option -> typed value
NoDefaults == [none |-> TRUE, map |-> <<>>]
Dict(m) == [none |-> FALSE, map |-> m]

\* Settings.__init__(defaults, ignored_sections)
New(df, ig) ==
    LET o0 == Obj(<<>>, df, <<>>, <<>>, ig)
    IN IF ~df.none /\ Len(df.map) > 0 THEN read_dict(o0, df.map, 1) ELSE o0

\* ---------------------------------------------------------------- getters
\* remember_fallback keeping the last fallback seen, also when it raises
remember_fallback_KeepsLast(o, section, option, fb) ==
    IF fb = UNSET THEN [o |-> o, err |-> ""]
    ELSE LET f1 == IF Has(o.fallback, section) THEN o.fallback ELSE add_section(o.fallback, section)
         IN IF HasOpt(Items(f1, section), option) /\ PyNe(OptVal(Items(f1, section), option), fb)
            THEN [o |-> [o EXCEPT !.fallback = put(f1, section, option, fb)], err |-> "FallbackConflict"]
            ELSE [o |-> [o EXCEPT !.fallback = put(f1, section, option, fb)], err |-> ""]

\* remember_fallback: the first fallback of a key is recorded, a later one
\* that is != the recorded one raises ValueError
remember_fallback(o, section, option, fb) ==
    IF fb = UNSET THEN [o |-> o, err |-> ""]
    ELSE LET f1 == IF Has(o.fallback, section) THEN o.fallback ELSE add_section(o.fallback, section)
         IN IF ~HasOpt(Items(f1, section), option)
            THEN [o |-> [o EXCEPT !.fallback = put(f1, section, option, fb)], err |-> ""]
            ELSE IF PyNe(OptVal(Items(f1, section), option), fb)
                 THEN [o |-> [o EXCEPT !.fallback = f1], err |-> "FallbackConflict"]
                 ELSE [o |-> [o EXCEPT !.fallback = f1], err |-> ""]

MaxInt == 9

Lower(s) == IF s = "True" THEN "true" ELSE IF s = "False" THEN "false" ELSE s

\* int(), float() and ConfigParser._convert_to_boolean on a stored string
Conv(kind, s) ==
    CASE kind = "str" -> [err |-> "", val |-> StrV(s)]
      [] kind = "int" ->
            IF \E k \in 0..MaxInt : IntStr(k) = s
            THEN [err |-> "", val |-> IntV(CHOOSE k \in 0..MaxInt : IntStr(k) = s)]
            ELSE [err |-> "ValueError", val |-> UNSET]
      [] kind = "float" ->
            IF \E k \in 0..MaxInt : s \in {IntStr(k), IntStr(k) \o ".0"}
            THEN [err |-> "", val |-> FloatV(CHOOSE k \in 0..MaxInt : s \in {IntStr(k), IntStr(k) \o ".0"})]
            ELSE [err |-> "ValueError", val |-> UNSET]
      [] kind = "bool" ->
            IF Lower(s) \in {"1", "yes", "true", "on"} THEN [err |-> "", val |-> BoolV(1)]
            ELSE IF Lower(s) \in {"0", "no", "false", "off"} THEN [err |-> "", val |-> BoolV(0)]
            ELSE [err |-> "ValueError", val |-> UNSET]

getter_PrefersFallback(o, kind, section, option, fb) ==
    LET rf == remember_fallback(o, section, option, fb)
        r == RawGet(o.data, section, option, fb)
    IN IF rf.err # "" THEN [o |-> rf.o, err |-> rf.err, val |-> UNSET]
       ELSE IF r.err # "" THEN [o |-> rf.o, err |-> r.err, val |-> UNSET]
       ELSE IF fb # UNSET THEN [o |-> rf.o, err |-> "", val |-> fb]
       ELSE [o |-> rf.o, err |-> Conv(kind, r.val.s).err, val |-> Conv(kind, r.val.s).val]

\* getstr / getboolean / getfloat / getint: remember the fallback, then the
\* parser's typed get (the fallback is returned unconverted)
getter(o, kind, section, option, fb) ==
    LET rf == remember_fallback(o, section, option, fb)
        r == RawGet(o.data, section, option, fb)
    IN IF rf.err # "" THEN [o |-> rf.o, err |-> rf.err, val |-> UNSET]
       ELSE IF r.err # "" THEN [o |-> rf.o, err |-> r.err, val |-> UNSET]
       ELSE IF ~has_option(o.data, section, option) THEN [o |-> rf.o, err |-> "", val |-> r.val]
       ELSE [o |-> rf.o, err |-> Conv(kind, r.val.s).err, val |-> Conv(kind, r.val.s).val]

\* ------------------------------------------------------- copy and __str__
RECURSIVE CopySections(_, _, _)
CopySections(settings, src, i) ==
    IF i > Len(src.data) THEN settings
    ELSE CopySections(SetAll(settings, src.data[i].name, Typed(src.data[i].items), FALSE, 1), src, i + 1)

\* __copy__: a new Settings with the same defaults and ignored sections,
\* then every option of self set on it; the ledgers are assigned to self
copy(o) == CopySections(New(o.defaults, o.ignored_sections), o, 1)

RECURSIVE StrItems(_, _)
StrItems(its, i) ==
    IF i > Len(its) THEN ""
    ELSE "  " \o its[i].opt \o " = " \o its[i].val \o "\n" \o StrItems(its, i + 1)

RECURSIVE StrSections(_, _)
StrSections(m, i) ==
    IF i > Len(m) THEN ""
    ELSE "[" \o m[i].name \o "]\n" \o StrItems(m[i].items, 1) \o StrSections(m, i + 1)

\* __str__
to_string(o) == StrSections(o.data, 1)

RollbackOption_BacksUpOriginal(st, section, option, value) ==
    LET r == RawGet(st.o.data, section, option, UNSET)
    IN IF r.err # "" THEN [st EXCEPT !.err = r.err]
       ELSE [st EXCEPT !.tb = put(@, section, option, value),
                       !.o = set(@, section, option, StrV(value), FALSE)]

\* ------------------------------------------------------------------ write
\* write, skip_tamporary: every option of the original ledger is read into
\* temporary_backup and set back to its remembered value
\* the rollback saving the current value without putting the original back
RollbackOption_KeepsCurrent(st, section, option, value) ==
    LET r == RawGet(st.o.data, section, option, UNSET)
    IN IF r.err # "" THEN [st EXCEPT !.err = r.err]
       ELSE [st EXCEPT !.tb = put(@, section, option, r.val.s)]

RollbackOption(st, section, option, value) ==
    LET r == RawGet(st.o.data, section, option, UNSET)
    IN IF r.err # "" THEN [st EXCEPT !.err = r.err]
       ELSE [st EXCEPT !.tb = put(@, section, option, r.val.s),
                       !.o = set(@, section, option, StrV(value), FALSE)]

RECURSIVE RollbackOptions(_, _, _, _)
RollbackOptions(st, section, its, i) ==
    IF i > Len(its) \/ st.err # "" THEN st
    ELSE RollbackOptions(RollbackOption(st, section, its[i].opt, its[i].val), section, its, i + 1)

RECURSIVE Rollback(_, _, _)
Rollback(st, og, i) ==
    IF i > Len(og) \/ st.err # "" THEN st
    ELSE Rollback(
            RollbackOptions([st EXCEPT !.tb = add_section(remove_section(@, og[i].name), og[i].name)],
                            og[i].name, og[i].items, 1),
            og, i + 1)

\* the ignored section saved in backup and left in place
RemoveIgnoredSection_Keeps(st, section) ==
    IF has_section(st.data, section)
    THEN [st EXCEPT !.backup = Append(remove_section(st.backup, section),
                                      [name |-> section, items |-> Items(st.data, section)])]
    ELSE st

\* write: an ignored section that exists is saved in backup and removed
RemoveIgnoredSection(st, section) ==
    IF has_section(st.data, section)
    THEN [data |-> remove_section(st.data, section),
          backup |-> Append(remove_section(st.backup, section),
                            [name |-> section, items |-> Items(st.data, section)])]
    ELSE st

RECURSIVE RemoveIgnored(_, _, _)
RemoveIgnored(st, ig, i) ==
    IF i > Len(ig) THEN st ELSE RemoveIgnored(RemoveIgnoredSection(st, ig[i]), ig, i + 1)

\* the comparison without str() around the default
IsDefault_NoStr(dflt, option, value) ==
    HasOpt(dflt, option) /\ OptVal(dflt, option).type = "str" /\ value = OptVal(dflt, option).s

\* write, skip_defaults: "option in self.defaults[section] and
\* value == str(self.defaults[section][option])"
IsDefault(dflt, option, value) == HasOpt(dflt, option) /\ value = PyStr(OptVal(dflt, option))

\* write, skip_defaults: the options of one section that equal their default
RECURSIVE SuppressOptions(_, _, _, _, _)
SuppressOptions(d, dflt, section, its, i) ==
    IF i > Len(its) THEN d
    ELSE IF IsDefault(dflt, its[i].opt, its[i].val)
         THEN SuppressOptions(remove_option(d, section, its[i].opt), dflt, section, its, i + 1)
         ELSE SuppressOptions(d, dflt, section, its, i + 1)

\* write, skip_defaults: over the sections present when the step starts;
\* "section in self.defaults" raises TypeError when defaults is None
RECURSIVE SuppressDefaults(_, _, _, _)
SuppressDefaults(st, df, secs, i) ==
    IF i > Len(secs) \/ st.err # "" THEN st
    ELSE IF df.none THEN [st EXCEPT !.err = "TypeError"]
    ELSE IF Has(df.map, secs[i])
         THEN LET d1 == SuppressOptions(st.data, Items(df.map, secs[i]), secs[i],
                                        Items(st.data, secs[i]), 1)
                  d2 == IF Len(Items(d1, secs[i])) = 0 THEN remove_section(d1, secs[i]) ELSE d1
              IN SuppressDefaults([st EXCEPT !.data = d2], df, secs, i + 1)
         ELSE SuppressDefaults(st, df, secs, i + 1)

\* RawConfigParser.write: one header line per section, one line per option,
\* one empty line after each section
RECURSIVE ItemLines(_, _, _)
ItemLines(its, d, i) ==
    IF i > Len(its) THEN <<>>
    ELSE <<[k |-> "option", a |-> its[i].opt, d |-> d, b |-> its[i].val]>> \o ItemLines(its, d, i + 1)

RECURSIVE SectionLines(_, _, _)
SectionLines(m, d, i) ==
    IF i > Len(m) THEN <<>>
    ELSE <<[k |-> "header", a |-> m[i].name, d |-> "", b |-> ""]>>
         \o ItemLines(m[i].items, d, 1)
         \o <<[k |-> "blank", a |-> "", d |-> "", b |-> ""]>>
         \o SectionLines(m, d, i + 1)

Serialize(m, space_around_delimiters) ==
    SectionLines(m, IF space_around_delimiters THEN " = " ELSE "=", 1)

RECURSIVE RestoreIgnored_ConsumesList(_, _, _)
RestoreIgnored_ConsumesList(o, backup, i) ==
    IF i > Len(backup) THEN [o EXCEPT !.ignored_sections = <<>>]
    ELSE RestoreIgnored_ConsumesList(
            SetAll([o EXCEPT !.data = add_section(@, backup[i].name)],
                   backup[i].name, Typed(backup[i].items), FALSE, 1),
            backup, i + 1)

\* write: the ignored sections come back from backup
RECURSIVE RestoreIgnored(_, _, _)
RestoreIgnored(o, backup, i) ==
    IF i > Len(backup) THEN o
    ELSE RestoreIgnored(
            SetAll([o EXCEPT !.data = add_section(@, backup[i].name)],
                   backup[i].name, Typed(backup[i].items), FALSE, 1),
            backup, i + 1)

\* write: the temporary values come back from temporary_backup
RECURSIVE RestoreTemporary(_, _, _)
RestoreTemporary(o, tb, i) ==
    IF i > Len(tb) THEN o
    ELSE LET o1 == IF ~Has(o.data, tb[i].name) THEN [o EXCEPT !.data = add_section(@, tb[i].name)] ELSE o
         IN RestoreTemporary(SetAll(o1, tb[i].name, Typed(tb[i].items), TRUE, 1), tb, i + 1)

NoFile == [exists |-> FALSE, lines |-> <<>>]

\* a destination: a str that open() accepts, or not a str
Destinations == {"path", "notstr"}

\* Settings.write(fp, space_around_delimiters, skip_defaults, skip_tamporary)
\* on object o with the file f at the destination: the object and the file
\* afterwards, and the exception raised ("" for none)
write(o, f, fp, space_around_delimiters, skip_defaults, skip_tamporary) ==
    LET s1 == IF skip_tamporary
              THEN Rollback([o |-> o, tb |-> <<>>, err |-> ""], o.original, 1)
              ELSE [o |-> o, tb |-> <<>>, err |-> ""]
        s2 == RemoveIgnored([data |-> s1.o.data, backup |-> <<>>], o.ignored_sections, 1)
        s3 == IF skip_defaults
              THEN SuppressDefaults([data |-> s2.data, err |-> ""], o.defaults, Names(s2.data), 1)
              ELSE [data |-> s2.data, err |-> ""]
        o3 == [s1.o EXCEPT !.data = s3.data]
    IN IF s1.err # "" THEN [o |-> s1.o, file |-> f, err |-> s1.err]
       ELSE IF s3.err # "" THEN [o |-> o3, file |-> f, err |-> s3.err]
       ELSE IF fp # "path" THEN [o |-> o3, file |-> f, err |-> "ValueError"]
       ELSE [o |-> RestoreTemporary(RestoreIgnored(o3, s2.backup, 1), s1.tb, 1),
             file |-> [exists |-> TRUE, lines |-> Serialize(s3.data, space_around_delimiters)],
             err |-> ""]

\* ConfigParser.read of the written file into a fresh parser
RECURSIVE ParseLines(_, _, _, _)
ParseLines(m, lines, cur, i) ==
    IF i > Len(lines) THEN m
    ELSE IF lines[i].k = "header"
         THEN ParseLines(add_section(m, lines[i].a), lines, lines[i].a, i + 1)
    ELSE IF lines[i].k = "option"
         THEN ParseLines(put(m, cur, lines[i].a, lines[i].b), lines, cur, i + 1)
    ELSE ParseLines(m, lines, cur, i + 1)

Reload(f) == IF f.exists THEN ParseLines(<<>>, f.lines, "", 1) ELSE <<>>

\* ------------------------------------------------------- the state machine
SetValues == {StrV("c"), IntV(1)}
Fallbacks == {UNSET, StrV("bar"), IntV(1), BoolV(1)}
Kinds == {"str", "bool", "float", "int"}
Keys == {<<"test", "a">>, <<"test", "b">>, <<"anothertest", "b">>}
GetKeys == {<<"test", "a">>, <<"anothertest", "b">>}

\* the arguments of write: the defaults of its signature, a destination that
\* is not a str, and each flag switched off in turn
WriteDefault == [fp |-> "path", space_around_delimiters |-> TRUE, skip_defaults |-> TRUE, skip_tamporary |-> TRUE]
WriteArgs ==
    {WriteDefault,
     [WriteDefault EXCEPT !.fp = "notstr"],
     [WriteDefault EXCEPT !.space_around_delimiters = FALSE],
     [WriteDefault EXCEPT !.skip_defaults = FALSE],
     [WriteDefault EXCEPT !.skip_tamporary = FALSE]}

D1 == Dict(<<[name |-> "test", items |-> <<[opt |-> "a", val |-> StrV("b")]>>]>>)
D2 == Dict(<<[name |-> "test", items |-> <<[opt |-> "a", val |-> IntV(1)]>>],
             [name |-> "anothertest", items |-> <<[opt |-> "b", val |-> StrV("b")]>>]>>)
DefaultsChoices == {NoDefaults, D1, D2}
IgnoredChoices == {<<>>, <<"anothertest">>}

\* the calls explored: a run of set, write and copy calls, or a run of
\* getter calls with one other call among them
Budgets == {[call |-> MaxCalls, get |-> 0], [call |-> 1, get |-> MaxGets]}

NoObject == New(NoDefaults, <<>>)

NoCall ==
    [op |-> "init", section |-> "", option |-> "", value |-> UNSET, temporary |-> FALSE,
     args |-> WriteDefault, err |-> "", ret |-> UNSET, repeat |-> FALSE]

\* the record of a call; repeat: it repeats the call before it, arguments and
\* all, and neither raised
Call(c) ==
    [c EXCEPT !.repeat = /\ last.err = "" /\ c.err = ""
                         /\ [last EXCEPT !.ret = UNSET, !.repeat = FALSE] = [c EXCEPT !.ret = UNSET]]

Install(o) ==
    /\ data' = o.data
    /\ defaults' = o.defaults
    /\ original' = o.original
    /\ fallback' = o.fallback
    /\ ignored_sections' = o.ignored_sections

Init ==
    \E df \in DefaultsChoices, ig \in IgnoredChoices, bd \in Budgets :
        /\ data = New(df, ig).data
        /\ defaults = New(df, ig).defaults
        /\ original = New(df, ig).original
        /\ fallback = New(df, ig).fallback
        /\ ignored_sections = New(df, ig).ignored_sections
        /\ file = NoFile
        /\ copied = NoObject
        /\ last = NoCall
        /\ hist = [k \in Keys |-> [seen |-> FALSE, had |-> FALSE, val |-> "", assigned |-> FALSE]]
        /\ budget = bd

\* s.set(section, option, value, temporary)
Set(section, option, value, temporary) ==
    /\ budget.call > 0
    /\ Install(set(Self, section, option, value, temporary))
    /\ hist' = IF temporary /\ ~hist[<<section, option>>].seen
               THEN [hist EXCEPT ![<<section, option>>] =
                        [seen |-> TRUE, had |-> has_option(data, section, option),
                         val |-> IF has_option(data, section, option)
                                 THEN OptVal(Items(data, section), option) ELSE "",
                         assigned |-> TRUE]]
               ELSE [hist EXCEPT ![<<section, option>>].assigned = TRUE]
    /\ last' = Call([NoCall EXCEPT !.op = "set", !.section = section, !.option = option,
                                   !.value = value, !.temporary = temporary])
    /\ budget' = [budget EXCEPT !.call = @ - 1]
    /\ copied' = NoObject
    /\ UNCHANGED file

\* s.getstr / s.getboolean / s.getfloat / s.getint (section, option, fallback=fb)
Get(kind, section, option, fb) ==
    LET r == getter(Self, kind, section, option, fb)
    IN /\ budget.get > 0
       /\ Install(r.o)
       /\ last' = Call([NoCall EXCEPT !.op = "get" \o kind, !.section = section,
                                      !.option = option, !.value = fb, !.err = r.err, !.ret = r.val])
       /\ budget' = [budget EXCEPT !.get = @ - 1]
       /\ copied' = NoObject
       /\ UNCHANGED <<file, hist>>

\* s.write(fp, space_around_delimiters, skip_defaults, skip_tamporary)
Write(args) ==
    LET r == write(Self, file, args.fp, args.space_around_delimiters,
                   args.skip_defaults, args.skip_tamporary)
    IN /\ budget.call > 0
       /\ Install(r.o)
       /\ file' = r.file
       /\ last' = Call([NoCall EXCEPT !.op = "write", !.args = args, !.err = r.err])
       /\ budget' = [budget EXCEPT !.call = @ - 1]
       /\ copied' = NoObject
       /\ UNCHANGED hist

\* t = s.copy()
Copy ==
    /\ budget.call > 0
    /\ copied' = copy(Self)
    /\ last' = Call([NoCall EXCEPT !.op = "copy"])
    /\ budget' = [budget EXCEPT !.call = @ - 1]
    /\ UNCHANGED <<data, defaults, original, fallback, ignored_sections, file, hist>>

Next ==
    \/ \E k \in Keys, value \in SetValues, temporary \in BOOLEAN : Set(k[1], k[2], value, temporary)
    \/ \E kind \in Kinds, k \in GetKeys, fb \in Fallbacks : Get(kind, k[1], k[2], fb)
    \/ \E args \in WriteArgs : Write(args)
    \/ Copy

Spec == Init /\ [][Next]_vars

\* ------------------------------------------------------------- properties
\* the (section, option, value) triples of a store, order left aside
Triples(m) ==
    UNION {{<<m[i].name, m[i].items[j].opt, m[i].items[j].val>> : j \in 1..Len(m[i].items)} :
              i \in 1..Len(m)}

Ignored(section) == \E i \in 1..Len(ignored_sections) : ignored_sections[i] = section

\* the call just made was write(path) with the flags of the signature
PlainWrite(l) == l.op = "write" /\ l.args = WriteDefault
BadDestinationWrite(l) == l.op = "write" /\ l.args = [WriteDefault EXCEPT !.fp = "notstr"]

\* C1: a successful write(path) leaves the set of (section, option, value)
\* triples held in memory as it was immediately before the call.
C1_WriteKeepsContent ==
    [][(PlainWrite(last') /\ last'.err = "") => Triples(data') = Triples(data)]_vars

\* C2: write to a destination that is not a str signals the bad-destination
\* error and leaves the (section, option, value) content as it was before.
C2_BadDestinationKeepsContent ==
    [][BadDestinationWrite(last') =>
          (last'.err = "ValueError" /\ Triples(data') = Triples(data))]_vars

\* C3: after write(path), an option with an original-ledger entry is in the
\* file only with the value it held immediately before its first temporary
\* set (the empty string when it did not exist), never with a later value.
C3_PersistsOriginal ==
    (PlainWrite(last) /\ last.err = "") =>
        \A k \in Keys :
            (hist[k].seen /\ has_option(Reload(file), k[1], k[2])) =>
                OptVal(Items(Reload(file), k[1]), k[2]) = hist[k].val

\* a successful write(path) has put into the file an overridden option whose
\* value in memory is another one than the value in the file
C3_Witness ==
    /\ PlainWrite(last) /\ last.err = ""
    /\ \E k \in Keys :
          /\ hist[k].seen /\ hist[k].had
          /\ has_option(Reload(file), k[1], k[2])
          /\ has_option(data, k[1], k[2])
          /\ OptVal(Items(data, k[1]), k[2]) # hist[k].val
          /\ OptVal(Items(Reload(file), k[1]), k[2]) = hist[k].val

\* C4: the file never holds a section of the ignored-section set, so a store
\* reloaded from it answers the fallback for every option of such a section.
C4_NoIgnoredSectionInFile ==
    \A i \in 1..Len(ignored_sections) :
        /\ \A j \in 1..Len(file.lines) :
              ~(file.lines[j].k = "header" /\ file.lines[j].a = ignored_sections[i])
        /\ \A k \in Keys :
              k[1] = ignored_sections[i] =>
                 RawGet(Reload(file), k[1], k[2], StrV("fallback")).val = StrV("fallback")

\* a write went to the file while an ignored section with options was in memory
C4_Witness ==
    /\ last.op = "write" /\ last.err = "" /\ file.exists /\ Len(file.lines) > 0
    /\ \E i \in 1..Len(ignored_sections) :
          /\ has_section(data, ignored_sections[i])
          /\ Len(Items(data, ignored_sections[i])) > 0

\* the default declared for a key, as the string write compares with
Declared(k) ==
    /\ ~defaults.none
    /\ Has(defaults.map, k[1])
    /\ HasOpt(Items(defaults.map, k[1]), k[2])

DefaultString(k) == PyStr(OptVal(Items(defaults.map, k[1]), k[2]))

\* C5: write(path) omits an option of a non-ignored section that has no
\* original-ledger entry exactly when its value is the string form of its
\* declared default, persists every other such option with its current value,
\* and puts no section without options into the file.
C5_DefaultSuppression ==
    [][(PlainWrite(last') /\ last'.err = "") =>
          /\ \A k \in Keys :
                (has_option(data, k[1], k[2]) /\ ~Ignored(k[1]) /\ ~has_option(original, k[1], k[2])) =>
                    IF Declared(k) /\ OptVal(Items(data, k[1]), k[2]) = DefaultString(k)
                    THEN ~has_option(Reload(file'), k[1], k[2])
                    ELSE /\ has_option(Reload(file'), k[1], k[2])
                         /\ OptVal(Items(Reload(file'), k[1]), k[2]) = OptVal(Items(data, k[1]), k[2])
          /\ \A i \in 1..Len(Reload(file')) : Len(Reload(file')[i].items) > 0]_vars

\* write(path) has left a declared default out of the file, its section with
\* it, and has persisted an option that is not a default
C5_Witness ==
    /\ PlainWrite(last) /\ last.err = ""
    /\ \E k \in Keys :
          /\ Declared(k) /\ ~Ignored(k[1]) /\ ~has_option(original, k[1], k[2])
          /\ ~has_section(Reload(file), k[1])
    /\ \E k \in Keys :
          /\ ~Ignored(k[1]) /\ ~has_option(original, k[1], k[2])
          /\ has_option(data, k[1], k[2]) /\ has_option(Reload(file), k[1], k[2])
          /\ Declared(k) /\ OptVal(Items(data, k[1]), k[2]) # DefaultString(k)

GetterCall(l) == l.op \in {"get" \o kind : kind \in Kinds}

\* C6 as stated: a getter whose fallback is another value than the one
\* recorded for the key raises the fallback conflict and leaves the ledger
\* alone; one that repeats the recorded fallback raises no conflict; a getter
\* without fallback records nothing and raises no conflict.
C6_AnyOtherFallbackConflicts ==
    [][GetterCall(last') =>
          LET section == last'.section
              option == last'.option
              fb == last'.value
              conflict == last'.err = "FallbackConflict"
          IN IF fb = UNSET THEN fallback' = fallback /\ ~conflict
             ELSE has_option(fallback, section, option) =>
                     /\ fallback' = fallback
                     /\ conflict <=> OptVal(Items(fallback, section), option) # fb]_vars

\* C6 (amended): a getter whose fallback is unequal, as Python compares values
\* (1, 1.0 and True are equal), to the one recorded for the key raises the
\* fallback conflict, whether or not the key exists, and leaves the ledger
\* alone; one whose fallback is equal to the recorded one raises no conflict;
\* the first fallback of a key is recorded; a getter without fallback records
\* nothing and raises no conflict.
C6_FallbackConflict ==
    [][GetterCall(last') =>
          LET section == last'.section
              option == last'.option
              fb == last'.value
              conflict == last'.err = "FallbackConflict"
          IN IF fb = UNSET THEN fallback' = fallback /\ ~conflict
             ELSE IF has_option(fallback, section, option)
                  THEN /\ fallback' = fallback
                       /\ conflict <=> PyNe(OptVal(Items(fallback, section), option), fb)
                  ELSE /\ ~conflict
                       /\ has_option(fallback', section, option)
                       /\ OptVal(Items(fallback', section), option) = fb]_vars

\* a getter has raised the conflict on a key that exists
C6_Witness ==
    /\ GetterCall(last) /\ last.err = "FallbackConflict"
    /\ has_option(data, last.section, last.option)
    /\ has_option(fallback, last.section, last.option)
    /\ OptVal(Items(fallback, last.section), last.option) # last.value

\* C7: the original-ledger entry of an option is made by the first temporary
\* set of the option, holds the value the option had just before that set
\* (the empty string when it did not exist), and no later call changes it.
C7_OriginalWrittenOnce ==
    [][\A k \in Keys :
          /\ has_option(original, k[1], k[2]) =>
                /\ has_option(original', k[1], k[2])
                /\ OptVal(Items(original', k[1]), k[2]) = OptVal(Items(original, k[1]), k[2])
          /\ (~has_option(original, k[1], k[2]) /\ has_option(original', k[1], k[2])) =>
                /\ last'.op = "set" /\ last'.temporary
                /\ <<last'.section, last'.option>> = k
                /\ OptVal(Items(original', k[1]), k[2]) =
                      (IF has_option(data, k[1], k[2]) THEN OptVal(Items(data, k[1]), k[2]) ELSE "")
          /\ (last'.op = "set" /\ last'.temporary /\ <<last'.section, last'.option>> = k) =>
                has_option(original', k[1], k[2])]_vars

\* the same temporary set made twice in a row: the ledger still holds what
\* the option had before the first one, not the value set
C7_Witness ==
    /\ last.op = "set" /\ last.temporary /\ last.repeat
    /\ has_option(original, last.section, last.option)
    /\ hist[<<last.section, last.option>>].had
    /\ OptVal(Items(original, last.section), last.option) = hist[<<last.section, last.option>>].val
    /\ OptVal(Items(original, last.section), last.option) # PyStr(last.value)

\* C8: s.copy() serializes identically to s via to_string().
C8_CopySerializesIdentically ==
    last.op = "copy" => to_string(copied) = to_string(Self)

\* C9: the file produced by writing s.copy() is identical to the file
\* produced by writing s.
C9_CopyPersistsIdentically ==
    last.op = "copy" =>
        write(copied, file, "path", TRUE, TRUE, TRUE).file = write(Self, file, "path", TRUE, TRUE, TRUE).file

\* C10: write twice in succession, with the same arguments and neither call
\* raising: the second file is the first, and the state in memory after the
\* second call is the state after the first.
C10_WriteIdempotent ==
    [][(last'.op = "write" /\ last'.repeat) =>
          /\ file' = file
          /\ data' = data
          /\ original' = original
          /\ fallback' = fallback
          /\ defaults' = defaults
          /\ ignored_sections' = ignored_sections]_vars

\* a second write in a row, on a store with a temporary value, into a file
\* that is not empty
C10_Witness ==
    /\ last.op = "write" /\ last.repeat
    /\ Len(original) > 0
    /\ Len(file.lines) > 0

\* C11: a successful write (with the flags' temporary handling as in the
\* signature) leaves the original ledger as it was, and every option with a
\* ledger entry, in an ignored section or a filtered one included, has in
\* memory the temporary value it had before the call.
C11_WriteKeepsTemporary ==
    [][(last'.op = "write" /\ last'.args.skip_tamporary /\ last'.err = "") =>
          /\ original' = original
          /\ \A k \in Keys :
                has_option(original, k[1], k[2]) =>
                    /\ has_option(data, k[1], k[2])
                    /\ has_option(data', k[1], k[2])
                    /\ OptVal(Items(data', k[1]), k[2]) = OptVal(Items(data, k[1]), k[2])]_vars

\* a successful write(path) has kept a temporary value whose original is
\* the declared default, so that filtering had removed the option, and one
\* of an ignored section
C11_Witness ==
    /\ PlainWrite(last) /\ last.err = ""
    /\ \E k \in Keys :
          /\ has_option(original, k[1], k[2]) /\ Declared(k) /\ ~Ignored(k[1])
          /\ OptVal(Items(original, k[1]), k[2]) = DefaultString(k)
          /\ ~has_option(Reload(file), k[1], k[2])
          /\ OptVal(Items(data, k[1]), k[2]) # OptVal(Items(original, k[1]), k[2])
    /\ \E k \in Keys :
          /\ has_option(original, k[1], k[2]) /\ Ignored(k[1])
          /\ OptVal(Items(data, k[1]), k[2]) # OptVal(Items(original, k[1]), k[2])

\* C12: in every state where set has not been called on an option that has
\* a default from construction, getstr returns the string form of the default.
C12_DefaultReadable ==
    \A k \in Keys :
        (Declared(k) /\ ~hist[k].assigned) =>
            getter(Self, "str", k[1], k[2], UNSET) =
                [o |-> Self, err |-> "", val |-> StrV(DefaultString(k))]

\* C13: right after set(section, option, value), temporary or not, the
\* section exists, getstr(section, option) returns the canonical string form
\* of value, and every value held by the store is a string.
C13_SetThenGetString ==
    [][(last'.op = "set") =>
          /\ has_section(data', last'.section)
          /\ getter(Self', "str", last'.section, last'.option, UNSET).err = ""
          /\ getter(Self', "str", last'.section, last'.option, UNSET).val = StrV(PyStr(last'.value))
          /\ \A t \in Triples(data') : t[3] \in STRING]_vars

\* a temporary set of the integer 1 has created its section, which holds
\* the string "1"
C13_Witness ==
    /\ last.op = "set" /\ last.temporary /\ last.value = IntV(1)
    /\ defaults.none /\ Len(data) = 1 /\ Len(Items(data, last.section)) = 1
    /\ OptVal(Items(data, last.section), last.option) = "1"
    /\ getter(Self, "str", last.section, last.option, UNSET).val.type = "str"

\* the getter of the call l
KindOf(l) == CHOOSE kind \in Kinds : l.op = "get" \o kind

\* v is what the stored string s reads as for a getter of this kind
ReadsAs(kind, s, v) ==
    CASE kind = "str" -> v = StrV(s)
      [] kind = "int" -> v.type = "int" /\ IntStr(v.n) = s
      [] kind = "float" -> v.type = "float" /\ s \in {IntStr(v.n), IntStr(v.n) \o ".0"}
      [] kind = "bool" ->
            /\ v.type = "bool"
            /\ \/ v.n = 1 /\ Lower(s) \in {"1", "yes", "true", "on"}
               \/ v.n = 0 /\ Lower(s) \in {"0", "no", "false", "off"}

C15_RegistryFixed ==
    [][/\ defaults' = defaults /\ ignored_sections' = ignored_sections
       /\ last'.op = "copy" =>
              (copied'.defaults = defaults /\ copied'.ignored_sections = ignored_sections)]_vars

\* a successful write has filtered a store that has defaults and an ignored
\* section, after a set: a default is gone from memory, the ignored section
\* is back, and the registry and the ignored-section set are as constructed
C15_Witness ==
    /\ last.op = "write" /\ last.err = ""
    /\ defaults \in {D1, D2} /\ ignored_sections = <<"anothertest">>
    /\ has_section(data, "anothertest")
    /\ \E k \in Keys : Declared(k) /\ ~Ignored(k[1]) /\ ~has_option(data, k[1], k[2])
    /\ \E k \in Keys : hist[k].assigned

\* option k1 is rendered before option k2 by to_string of a store holding both
Before(m, k1, k2) ==
    \/ Idx(m, k1[1]) < Idx(m, k2[1])
    \/ k1[1] = k2[1] /\ OptIdx(Items(m, k1[1]), k1[2]) < OptIdx(Items(m, k2[1]), k2[2])

\* C16: a successful write(path) keeps the order of the sections and of the
\* options within them: two options held before and after the call are
\* rendered by to_string in the same order after it as before it.
C16_WriteKeepsOrder ==
    [][(PlainWrite(last') /\ last'.err = "") =>
          \A k1, k2 \in Keys :
              (/\ has_option(data, k1[1], k1[2]) /\ has_option(data, k2[1], k2[2])
               /\ has_option(data', k1[1], k1[2]) /\ has_option(data', k2[1], k2[2])
               /\ Before(data, k1, k2)) => Before(data', k1, k2)]_vars

\* C17: for a store constructed without defaults, write(path) completes
\* without error, and the file holds every option of every non-ignored
\* section that has no original-ledger entry, with its value.
C17_WriteWithoutDefaults ==
    [][(PlainWrite(last') /\ defaults.none) =>
          /\ last'.err = ""
          /\ \A k \in Keys :
                (has_option(data, k[1], k[2]) /\ ~Ignored(k[1]) /\ ~has_option(original, k[1], k[2])) =>
                    /\ has_option(Reload(file'), k[1], k[2])
                    /\ OptVal(Items(Reload(file'), k[1]), k[2]) = OptVal(Items(data, k[1]), k[2])]_vars

\* C18: a non-temporary set(section, option, v) on a non-ignored section,
\* with v other than the declared default, is persisted by the write(path)
\* that follows it: the file holds the option with the string form of v,
\* also when the option had been temporarily overridden before.
C18_PermanentSetPersisted ==
    [][(/\ last.op = "set" /\ ~last.temporary /\ ~defaults.none
        /\ ~Ignored(last.section)
        /\ ~(Declared(<<last.section, last.option>>)
               /\ PyStr(last.value) = DefaultString(<<last.section, last.option>>))
        /\ PlainWrite(last') /\ last'.err = "") =>
          /\ has_option(Reload(file'), last.section, last.option)
          /\ OptVal(Items(Reload(file'), last.section), last.option) = PyStr(last.value)]_vars

\* C19: an option that did not exist before its first temporary set is not
\* in the file that write(path) produces, so a store reloaded from the file
\* returns the fallback for it.
C19_AbsentOriginalNotPersisted ==
    (PlainWrite(last) /\ last.err = "") =>
        \A k \in Keys :
            (hist[k].seen /\ ~hist[k].had) =>
                /\ ~has_option(Reload(file), k[1], k[2])
                /\ RawGet(Reload(file), k[1], k[2], StrV("fallback")).val = StrV("fallback")

====
